---- MODULE Spec2Model ----
(***************************************************************************)
(* Model of the Squeezebox integration (src/src/squeezebox.cpp): the       *)
(* connection / subscription state machine, the player registry with the   *)
(* status synchroniser, and the progress timer.                            *)
(*                                                                         *)
(* Every handler of the class is an operator from a session record (all    *)
(* the members of the object plus the transports it owns) to the session   *)
(* record after the handler has returned; the actions install the result.  *)
(* Positions (double, seconds) are counted in tenths of a second, exactly. *)
(***************************************************************************)
EXTENDS Integers, Sequences, FiniteSets, TLC

\* ------------------------------------------------------------------ bounds
MaxRand == 2          \* qrand() draws from 1..MaxRand
MaxTicks == 2         \* progress ticks followed since the last applied status
MaxPendingPlayers == 2 \* player-list RPCs in flight
MaxPendingStatus == 1 \* status RPCs in flight per player
MaxPendingCommands == 2 \* command RPCs in flight

\* ------------------------------------------------------- program constants
MaxTries == 3         \* onConnectionTimeoutTimer: _connectionTries == 3
TickStep == 5         \* onMediaProgressTimer: position += 0.5 (in tenths)

\* --------------------------------------------------------------- alphabet
MyEntities == {"A", "B"}              \* m_entities->getByIntegration(...)
NoKey == ""                           \* a default-constructed QString
AllKeys == MyEntities \cup {NoKey}
ServerPlayers == {"A", "B", "Z"}      \* what a players_loop may list
RandIds == 1..MaxRand
FrameIds == 0..MaxRand                \* map["id"].toInt(): 0 when absent

\* connectionStates (squeezebox.h) and the error state used by socketError
idle == "idle"
playerInfo == "playerInfo"
cometdHandshake == "cometdHandshake"
cometdConnect == "cometdConnect"
cometdSubscribe == "cometdSubscribe"
connected == "connected"
error == "error"

\* strings are sequences of tokens, so that building and comparing them is
\* what the code does
EmptyStr == << >>
Quote == "\""
RemoveQuotes(str) == SelectSeq(str, LAMBDA c : c # Quote)
ClientIds == { <<"a">>, <<Quote, "a", Quote>> }
SubscriptionChannelOf(cid) == <<"/slim/">> \o cid \o <<"/status">>
ChHandshake == <<"/meta/handshake">>
ChConnect == <<"/meta/connect">>
ChSubscribe == <<"/slim/subscribe">>
ImageUrl(coverid) == <<"http://host:port/", "music/", coverid, "/cover.jpg">>

\* what a handler writes to its transports and services while it runs:
\* an RPC posted ("rpc"), a CometD frame written to the socket ("cometd"),
\* a connectToHost call ("open"), a notification added ("notify")
Out(kind, player, command, id) ==
    [kind |-> kind, player |-> player, command |-> command, id |-> id]

\* command strings, one token per word and per blank
PlayersCmd == <<"players", " ", "0", " ", "99">>
StatusCmd == <<"status", " ", "-", " ", "1", " ", "tags:aBcdgjKlNotuxyY",
               " ", "power">>
SubscribeCmd == StatusCmd \o <<" ", "subscribe:60">>

\* ------------------------------------------------------------ the records
SqPlayer == [connected |-> FALSE, subscribed |-> FALSE, isPlaying |-> FALSE,
             position |-> 0]

EntityDefault == [state |-> "NONE", artist |-> "", title |-> "",
                  image |-> EmptyStr, duration |-> 0, volume |-> 0,
                  muted |-> FALSE, progress |-> 0]

\* a status payload: the "result" of a status RPC, or the "data" of a push
Payload(power, mode, hasItem, artist, coverart, volume, duration, time) ==
    [power |-> power, mode |-> mode, hasItem |-> hasItem, artist |-> artist,
     title |-> artist, coverart |-> coverart, coverid |-> "c1",
     mixer_volume |-> volume, duration |-> duration, time |-> time]

NoData == Payload(FALSE, "", FALSE, "", FALSE, 0, 0, 0)

\* the payloads the connection model delivers
Payloads ==
    { Payload(TRUE, "play", TRUE, "x", TRUE, 37, 200, 0),
      Payload(TRUE, "pause", TRUE, "x", TRUE, -1, 200, 12),
      Payload(FALSE, "play", TRUE, "x", TRUE, 37, 200, 12),
      Payload(TRUE, "play", FALSE, "", FALSE, 37, 0, 0) }

\* the payloads the status model draws from
StatusPayloads ==
    { Payload(pw, md, it, ar, ca, vo, du, ti) :
        pw \in BOOLEAN, md \in {"play", "pause", "stop", ""},
        it \in {TRUE}, ar \in {"x", "y"}, ca \in BOOLEAN,
        vo \in {-1, 0, 37}, du \in {200}, ti \in {0, 12} }
    \cup
    { Payload(pw, md, FALSE, "", FALSE, vo, 0, 0) :
        pw \in BOOLEAN, md \in {"play", "pause"}, vo \in {-1, 37} }

VARIABLES
    connectionState,          \* _connectionState
    userDisconnect,           \* _userDisconnect
    inStandby,                \* _inStandby
    connectionTries,          \* _connectionTries
    connectionTimeoutActive,  \* _connectionTimeout.isActive()
    mediaProgressActive,      \* _mediaProgress.isActive()
    clientId,                 \* _clientId
    subscriptionChannel,      \* _subscriptionChannel
    sqPlayerDatabase,         \* _sqPlayerDatabase
    sqPlayerIdMapping,        \* _sqPlayerIdMapping
    entities,                 \* the entity projection of each configured player
    integrationState,         \* Integration::setState
    socketState,              \* _socket.state()
    pendingPlayers,           \* player-list RPCs whose reply is outstanding
    pendingStatus,            \* status RPCs whose reply is outstanding, per player
    pendingCommands,          \* command RPCs whose reply is outstanding
    crashed,                  \* the process has died (null / out-of-range access)
    stateTrace,               \* history: states assigned since connect(), while undisturbed
    basePosition,             \* history: the time of the last applied status, per player
    ticksSince                \* history: progress ticks since the last applied status

vars == << connectionState, userDisconnect, inStandby, connectionTries,
           connectionTimeoutActive, mediaProgressActive, clientId,
           subscriptionChannel, sqPlayerDatabase, sqPlayerIdMapping, entities,
           integrationState, socketState, pendingPlayers, pendingStatus,
           pendingCommands, crashed, stateTrace, basePosition, ticksSince >>

\* the session as one record; out is what the running handler has written
\* so far
Cur ==
    [cs |-> connectionState, userDisconnect |-> userDisconnect,
     inStandby |-> inStandby, tries |-> connectionTries,
     timeout |-> connectionTimeoutActive, progress |-> mediaProgressActive,
     clientId |-> clientId, channel |-> subscriptionChannel,
     db |-> sqPlayerDatabase, map |-> sqPlayerIdMapping, ent |-> entities,
     integ |-> integrationState, socket |-> socketState,
     pendingPlayers |-> pendingPlayers, pendingStatus |-> pendingStatus,
     pendingCommands |-> pendingCommands,
     crashed |-> crashed, trace |-> stateTrace, base |-> basePosition,
     ticks |-> ticksSince, out |-> << >>]

Install(s) ==
    /\ connectionState' = s.cs
    /\ userDisconnect' = s.userDisconnect
    /\ inStandby' = s.inStandby
    /\ connectionTries' = s.tries
    /\ connectionTimeoutActive' = s.timeout
    /\ mediaProgressActive' = s.progress
    /\ clientId' = s.clientId
    /\ subscriptionChannel' = s.channel
    /\ sqPlayerDatabase' = s.db
    /\ sqPlayerIdMapping' = s.map
    /\ entities' = s.ent
    /\ integrationState' = s.integ
    /\ socketState' = s.socket
    /\ pendingPlayers' = s.pendingPlayers
    /\ pendingStatus' = s.pendingStatus
    /\ pendingCommands' = s.pendingCommands
    /\ crashed' = s.crashed
    /\ stateTrace' = s.trace
    /\ basePosition' = s.base
    /\ ticksSince' = s.ticks

\* ------------------------------------------------------- registry helpers
\* QMap::operator[]: a missing key is inserted with a default value
DbAt(db, k) == IF k \in DOMAIN db THEN db[k] ELSE SqPlayer

DbSet(db, k, rec) ==
    [x \in DOMAIN db \cup {k} |-> IF x = k THEN rec ELSE db[x]]

\* QMap::value(key): a default-constructed value when the key is missing
MapValue(map, id) == IF id \in DOMAIN map THEN map[id] ELSE NoKey

MapInsert(map, id, k) ==
    [x \in DOMAIN map \cup {id} |-> IF x = id THEN k ELSE map[x]]

EmptyMap == [x \in {} |-> NoKey]

\* EntitiesInterface::getEntityInterface: null for an id that is no entity
HasEntity(mac) == mac \in MyEntities

Emit(s, o) == [s EXCEPT !.out = Append(s.out, o)]

\* history: one more state assigned during an undisturbed connect attempt
Visit(s, st) ==
    [s EXCEPT !.cs = st,
              !.trace = IF s.trace # << >> /\ s.cs # st
                        THEN Append(s.trace, st) ELSE s.trace]

\* history: the attempt has been disturbed (disconnect, socket error)
Disturb(s) == [s EXCEPT !.trace = << >>]

\* ------------------------------------------------------ parsePlayerStatus
\* lines 322-338: the entity state
PlayerStateOf(d) ==
    IF ~d.power THEN "OFF"
    ELSE IF d.mode = "play" THEN "PLAYING"
    ELSE IF d.mode = "pause" \/ d.mode = "stop" THEN "IDLE"
    ELSE "ON"

\* mutant: a power-off status clears the isPlaying flag
IsPlayingClearedByPowerOff(was, d) ==
    IF ~d.power THEN FALSE
    ELSE IF d.mode = "play" THEN TRUE
    ELSE IF d.mode = "pause" \/ d.mode = "stop" THEN FALSE
    ELSE was

\* lines 328-337: the isPlaying flag
IsPlayingAfter(was, d) ==
    IF d.power /\ d.mode = "play" THEN TRUE
    ELSE IF d.power /\ (d.mode = "pause" \/ d.mode = "stop") THEN FALSE
    ELSE was

\* mutant: the timer is started whatever the standby flag says
ProgressIgnoringStandby(active, standby, d) ==
    IF d.power /\ d.mode = "play" THEN TRUE ELSE active

\* lines 328-333: the progress timer
ProgressAfter(active, standby, d) ==
    IF d.power /\ d.mode = "play" /\ standby = FALSE THEN TRUE ELSE active

\* lines 341-350: the track attributes; item is the playlist entry read
TrackAttrs(e, item) ==
    [e EXCEPT !.artist = item.artist,
              !.title = item.title,
              !.image = IF item.coverart THEN ImageUrl(item.coverid)
                        ELSE EmptyStr]

\* mutant: the volume attribute is written for a negative value too
VolumeAlwaysWritten(e, d) ==
    [e EXCEPT !.muted = d.mixer_volume < 0, !.volume = d.mixer_volume]

\* lines 351-357: volume and mute
VolumeAttrs(e, d) ==
    IF d.mixer_volume < 0
    THEN [e EXCEPT !.muted = TRUE]
    ELSE [e EXCEPT !.muted = FALSE, !.volume = d.mixer_volume]

\* mutant: the pushed time is added to the local position
PositionAccumulated(pos, d) == pos + d.time

\* lines 358-361: duration and position
PositionAfter(pos, d) == d.time

\* the entry playlist.at(playlistIndex) yields: the payload's entry, or, when
\* the list has none at that index, whatever an out-of-range read that does
\* not kill the process converts to: an empty map
PlaylistItem(d) ==
    IF d.hasItem
    THEN [artist |-> d.artist, title |-> d.title, coverart |-> d.coverart,
          coverid |-> d.coverid]
    ELSE [artist |-> "", title |-> "", coverart |-> FALSE, coverid |-> ""]

\* ub: what an undefined access does, "crash" or "continue"
parsePlayerStatus(s, mac, d, ub) ==
    IF ~HasEntity(mac)
    THEN [s EXCEPT !.crashed = TRUE]          \* entity->setState on null
    ELSE
      LET p0 == DbAt(s.db, mac)
          e1 == [s.ent[mac] EXCEPT !.state = PlayerStateOf(d)]
          p1 == [p0 EXCEPT !.isPlaying = IsPlayingAfter(p0.isPlaying, d)]
          s1 == [s EXCEPT !.ent = [s.ent EXCEPT ![mac] = e1],
                          !.db = DbSet(s.db, mac, p1),
                          !.progress = ProgressAfter(s.progress, s.inStandby, d)]
      IN IF ~d.hasItem /\ ub = "crash"
         THEN [s1 EXCEPT !.crashed = TRUE]    \* playlist.at() out of range
         ELSE
           LET e2 == TrackAttrs(e1, PlaylistItem(d))
               e3 == VolumeAttrs(e2, d)
               pos == PositionAfter(p1.position, d)
               e4 == [e3 EXCEPT !.duration = d.duration, !.progress = pos]
               p2 == [p1 EXCEPT !.position = pos]
           IN [s1 EXCEPT !.ent = [s.ent EXCEPT ![mac] = e4],
                         !.db = DbSet(s.db, mac, p2),
                         !.base = [s.base EXCEPT ![mac] = d.time],
                         !.ticks = [s.ticks EXCEPT ![mac] = 0]]

\* --------------------------------------------------- onMediaProgressTimer
\* mutant: only the first playing player of the registry is advanced
AdvanceFirstPlaying(db) ==
    [k \in DOMAIN db |->
        IF db[k].isPlaying /\ \A j \in DOMAIN db : db[j].isPlaying => j \in {k, "B"}
        THEN [db[k] EXCEPT !.position = db[k].position + TickStep]
        ELSE db[k]]

\* lines 366-373: every playing player is advanced by half a second
AdvancePlayers(db) ==
    [k \in DOMAIN db |->
        IF db[k].isPlaying
        THEN [db[k] EXCEPT !.position = db[k].position + TickStep]
        ELSE db[k]]

OnePlaying(db) == \E k \in DOMAIN db : db[k].isPlaying

onMediaProgressTimer(s) ==
    IF \E k \in DOMAIN s.db : s.db[k].isPlaying /\ ~HasEntity(k)
    THEN [s EXCEPT !.crashed = TRUE]
    ELSE
      LET db1 == AdvancePlayers(s.db)
      IN [s EXCEPT
            !.db = db1,
            !.ent = [k \in DOMAIN s.ent |->
                        IF k \in DOMAIN db1 /\ s.db[k].isPlaying
                        THEN [s.ent[k] EXCEPT !.progress = db1[k].position]
                        ELSE s.ent[k]],
            !.progress = IF OnePlaying(s.db) THEN s.progress ELSE FALSE,
            !.ticks = [k \in DOMAIN s.ticks |->
                        IF s.ticks[k] < MaxTicks THEN s.ticks[k] + 1
                        ELSE s.ticks[k]]]

\* ------------------------------------------------------------ RPC client
\* getPlayerStatus, lines 232-235: one more status RPC in flight
getPlayerStatus(s, mac) ==
    Emit([s EXCEPT !.pendingStatus =
            [k \in DOMAIN s.pendingStatus |->
                IF k = mac THEN s.pendingStatus[k] + 1 ELSE s.pendingStatus[k]]],
         Out("rpc", mac, StatusCmd, 1))

\* getPlayers, lines 182-187: the state is set and the player list requested
getPlayers(s) ==
    Emit([s EXCEPT !.cs = playerInfo, !.pendingPlayers = s.pendingPlayers + 1],
         Out("rpc", "-", PlayersCmd, 1))

\* ---------------------------------------------------------------- socket
\* mutant: the user-disconnect flag is not looked at
socketErrorUnguarded(s) == Disturb([s EXCEPT !.cs = error, !.timeout = TRUE])

\* socketError, lines 299-308
socketError(s) ==
    IF s.userDisconnect THEN s
    ELSE Disturb([s EXCEPT !.cs = error, !.timeout = TRUE])

\* QTcpSocket::connectToHost (line 228): a socket that is already connecting
\* or connected reports an OperationError through the error signal
connectToHost(s) ==
    LET s0 == Emit(s, Out("open", "", << >>, 0))
    IN IF s0.socket = "unconnected"
       THEN [s0 EXCEPT !.socket = "connecting"]
       ELSE socketError(s0)

\* socketConnected, lines 280-297
socketConnected(s) ==
    Emit(Visit(s, cometdHandshake), Out("cometd", "", ChHandshake, 0))

\* ------------------------------------------------------------- lifecycle
\* mutant: the connection timeout is not started
connectUntimed(s) ==
    [getPlayers([s EXCEPT !.integ = "CONNECTING", !.userDisconnect = FALSE])
       EXCEPT !.trace = <<playerInfo>>]

\* connect, lines 102-110
connect(s) ==
    [getPlayers([s EXCEPT !.integ = "CONNECTING",
                          !.userDisconnect = FALSE,
                          !.timeout = TRUE])
       EXCEPT !.trace = <<playerInfo>>]      \* history: a new attempt starts

\* disconnect, lines 112-119
disconnect(s) ==
    Disturb([s EXCEPT !.userDisconnect = TRUE,
                      !.socket = "unconnected",
                      !.progress = FALSE,
                      !.integ = "DISCONNECTED"])

\* enterStandby, lines 121-124
enterStandby(s) == [s EXCEPT !.progress = FALSE, !.inStandby = TRUE]

\* the keys of a registry in QMap order
KeyOrder == <<NoKey, "A", "B">>
KeysOf(db) == SelectSeq(KeyOrder, LAMBDA k : k \in DOMAIN db)

RECURSIVE PollPlaying(_, _)
PollPlaying(s, keys) ==
    IF keys = << >> THEN s
    ELSE PollPlaying(IF s.db[Head(keys)].isPlaying
                     THEN getPlayerStatus(s, Head(keys)) ELSE s,
                     Tail(keys))

\* mutant: every player is polled, playing or not
leaveStandbyPollingAll(s) ==
    [s EXCEPT !.inStandby = FALSE,
              !.pendingStatus = [k \in DOMAIN s.pendingStatus |->
                                   s.pendingStatus[k] + 1]]

\* leaveStandby, lines 126-133
leaveStandby(s) == PollPlaying([s EXCEPT !.inStandby = FALSE], KeysOf(s.db))

\* mutant: the counter is not reset when the session gives up
onConnectionTimeoutTimerKeepingCount(s) ==
    LET s0 == [s EXCEPT !.timeout = FALSE]
    IN IF s0.cs = connected THEN [s0 EXCEPT !.tries = 0]
       ELSE IF s0.tries >= MaxTries
            THEN Emit(disconnect(s0), Out("notify", "", <<"Reconnect">>, 0))
            ELSE connect([s0 EXCEPT !.tries = s0.tries + 1])

\* onConnectionTimeoutTimer, lines 135-159 (the timer is single-shot)
onConnectionTimeoutTimer(s) ==
    LET s0 == [s EXCEPT !.timeout = FALSE]
    IN IF s0.cs = connected THEN [s0 EXCEPT !.tries = 0]
       ELSE IF s0.tries = MaxTries
            THEN [Emit(disconnect(s0), Out("notify", "", <<"Reconnect">>, 0))
                    EXCEPT !.tries = 0]
            ELSE connect([s0 EXCEPT !.tries = s0.tries + 1])

\* ------------------------------------------- getPlayers finished callback
RECURSIVE MarkPlayers(_, _)
MarkPlayers(s, players) ==
    IF players = << >> THEN s
    ELSE LET id == Head(players)
         IN MarkPlayers(
              IF id \in DOMAIN s.db
              THEN getPlayerStatus(
                     [s EXCEPT !.db = [s.db EXCEPT ![id].connected = TRUE]], id)
              ELSE s,
              Tail(players))

\* lines 188-229; players is the players_loop, ok is whether the body parses
playersReply(s, players, ok) ==
    LET s0 == [s EXCEPT !.pendingPlayers = s.pendingPlayers - 1]
    IN IF ~ok THEN s0
       ELSE connectToHost(MarkPlayers(s0, players))

\* getPlayerStatus finished callback, lines 236-248
statusReply(s, mac, d, ok, ub) ==
    LET s0 == [s EXCEPT !.pendingStatus = [s.pendingStatus EXCEPT ![mac] = @ - 1]]
    IN IF ~ok THEN s0 ELSE parsePlayerStatus(s0, mac, d, ub)

\* ------------------------------------------------------ command dispatcher
\* the commands sendCommand handles (lines 493-515), and one it does not
HandledCommands ==
    {"C_PLAY", "C_PAUSE", "C_STOP", "C_NEXT", "C_PREVIOUS", "C_TURNON",
     "C_TURNOFF", "C_MUTE", "C_VOLUME_UP", "C_VOLUME_DOWN", "C_VOLUME_SET"}
Commands == HandledCommands \cup {"C_SEEK"}
ItemTypes == {"media_player", "light"}

\* the QVariant param: a string, an int, or an invalid variant
StrParam(str) == [t |-> "string", str |-> str, int |-> 0]
IntParam(n) == [t |-> "int", str |-> << >>, int |-> n]
NoParam == [t |-> "invalid", str |-> << >>, int |-> 0]
Params == {StrParam(<<"2", "0">>), IntParam(20), IntParam(5), NoParam}

DigitTok == <<"0", "1", "2", "3", "4", "5", "6", "7", "8", "9">>

\* QString::number for an int that is not negative
RECURSIVE Decimal(_)
Decimal(n) ==
    IF n < 10 THEN <<DigitTok[n + 1]>>
    ELSE Decimal(n \div 10) \o <<DigitTok[(n % 10) + 1]>>

\* QVariant::toString
VariantToString(param) ==
    IF param.t = "string" THEN param.str
    ELSE IF param.t = "int" THEN Decimal(param.int)
    ELSE EmptyStr

\* lines 493-515: the command string of a handled command
CommandString(command, param) ==
    CASE command = "C_PLAY" -> <<"play">>
      [] command = "C_PAUSE" -> <<"pause", " ", "1">>
      [] command = "C_STOP" -> <<"stop">>
      [] command = "C_NEXT" -> <<"playlist", " ", "jump", " ", "+1">>
      [] command = "C_PREVIOUS" -> <<"playlist", " ", "jump", " ", "-1">>
      [] command = "C_TURNON" -> <<"power", " ", "1">>
      [] command = "C_TURNOFF" -> <<"power", " ", "0">>
      [] command = "C_MUTE" -> <<"mixer", " ", "muting", " ", "1">>
      [] command = "C_VOLUME_UP" -> <<"button", " ", "volume_up">>
      [] command = "C_VOLUME_DOWN" -> <<"button", " ", "volume_down">>
      [] command = "C_VOLUME_SET" ->
            <<"mixer", " ", "volume", " ">> \o VariantToString(param)

\* sqCommand, lines 251-254: one more command RPC in flight
sqCommand(s, mac, command) ==
    Emit([s EXCEPT !.pendingCommands = s.pendingCommands + 1],
         Out("rpc", mac, command, 1))

\* sqCommand finished callback, lines 255-269: the answer is parsed and dropped
commandReply(s, ok) == [s EXCEPT !.pendingCommands = s.pendingCommands - 1]

\* mutant: the item type is not looked at
sendCommandAnyType(s, type, entityId, command, param) ==
    IF command \in HandledCommands
    THEN sqCommand(s, entityId, CommandString(command, param))
    ELSE s

\* sendCommand, lines 487-516
sendCommand(s, type, entityId, command, param) ==
    IF type # "media_player" THEN s
    ELSE IF command \in HandledCommands
    THEN sqCommand(s, entityId, CommandString(command, param))
    ELSE s

\* networkError, lines 310-315: the error is logged, or not
networkError(s) == s

\* --------------------------------------------------------- socketReceived
\* one CometD message of a frame's JSON array
Message(channel, successful, id, cid, data) ==
    [channel |-> channel, successful |-> successful, id |-> id,
     clientId |-> cid, data |-> data]

\* mutant: the handshake answer starts the subscriptions at once
handshakeBranchSkipping(s, m) ==
    Visit([s EXCEPT !.clientId = RemoveQuotes(m.clientId),
                    !.channel = SubscriptionChannelOf(RemoveQuotes(m.clientId))],
          cometdSubscribe)

\* lines 404-421: the handshake has succeeded
handshakeBranch(s, m) ==
    LET cid == RemoveQuotes(m.clientId)
    IN Emit(Visit([s EXCEPT !.clientId = cid,
                            !.channel = SubscriptionChannelOf(cid)],
                  cometdConnect),
            Out("cometd", "", ChConnect, 0))

\* mutant: every connected player is subscribed, subscribed already or not
RECURSIVE SubscribePlayersAgain(_, _, _)
SubscribePlayersAgain(s, keys, rnd) ==
    IF keys = << >> THEN s
    ELSE LET k == Head(keys)
         IN SubscribePlayersAgain(
              IF s.db[k].connected
              THEN Emit([s EXCEPT !.map = MapInsert(s.map, rnd[k], k)],
                        Out("cometd", k, SubscribeCmd, rnd[k]))
              ELSE s,
              Tail(keys), rnd)

\* lines 429-458: one subscribe request for every connected, unsubscribed
\* player; rnd[k] is what qrand() returns for player k
RECURSIVE SubscribePlayers(_, _, _)
SubscribePlayers(s, keys, rnd) ==
    IF keys = << >> THEN s
    ELSE LET k == Head(keys)
         IN SubscribePlayers(
              IF s.db[k].connected /\ ~s.db[k].subscribed
              THEN Emit([s EXCEPT !.map = MapInsert(s.map, rnd[k], k)],
                        Out("cometd", k, SubscribeCmd, rnd[k]))
              ELSE s,
              Tail(keys), rnd)

\* lines 422-458: the connect has succeeded
connectBranch(s, rnd) ==
    SubscribePlayers(Visit(s, cometdSubscribe), KeysOf(s.db), rnd)

\* lines 464-473
ConnectedCount(db) == Cardinality({k \in DOMAIN db : db[k].connected})
SubscriptionCount(db) ==
    Cardinality({k \in DOMAIN db : db[k].connected /\ db[k].subscribed})

\* mutant: one subscription is enough
AnySubscribed(db) == SubscriptionCount(db) > 0

\* lines 474-477
AllSubscribed(db) == ConnectedCount(db) = SubscriptionCount(db)

\* lines 459-477: a subscription has been acknowledged
subscribeBranch(s, m) ==
    LET player == MapValue(s.map, m.id)
        db1 == DbSet(s.db, player,
                     [DbAt(s.db, player) EXCEPT !.subscribed = TRUE])
        s1 == [s EXCEPT !.db = db1]
    IN IF AllSubscribed(db1)
       THEN [Visit(s1, connected) EXCEPT !.integ = "CONNECTED"]
       ELSE s1

\* mutant: a pushed status is applied only while Connected
pushBranchWhenConnected(s, m, ub) ==
    IF s.cs = connected
    THEN parsePlayerStatus(s, MapValue(s.map, m.id), m.data, ub)
    ELSE s

\* lines 478-483: a pushed status
pushBranch(s, m, ub) ==
    parsePlayerStatus(s, MapValue(s.map, m.id), m.data, ub)

\* lines 401-484: the body of the loop over the messages of a frame
handleMessage(s, m, rnd, ub) ==
    IF s.cs = cometdHandshake /\ m.successful /\ m.channel = ChHandshake
    THEN handshakeBranch(s, m)
    ELSE IF s.cs = cometdConnect /\ m.successful /\ m.channel = ChConnect
    THEN connectBranch(s, rnd)
    ELSE IF s.cs = cometdSubscribe /\ m.successful /\ m.channel = ChSubscribe
    THEN subscribeBranch(s, m)
    ELSE IF m.channel = s.channel
    THEN pushBranch(s, m, ub)
    ELSE s

RECURSIVE handleMessages(_, _, _, _)
handleMessages(s, msgs, rnd, ub) ==
    IF msgs = << >> \/ s.crashed THEN s
    ELSE handleMessages(handleMessage(s, Head(msgs), rnd, ub), Tail(msgs),
                        rnd, ub)

\* a read from the socket: kind is "blank" (no line at all), "reject" (neither
\* an HTTP 200 response nor a two-line packet), "badjson", or "ok"
Frame(kind, msgs) == [kind |-> kind, msgs |-> msgs]

\* socketReceived, lines 380-485
socketReceived(s, f, rnd, ub) ==
    IF f.kind = "blank"
    THEN (IF ub = "crash" THEN [s EXCEPT !.crashed = TRUE] ELSE s)  \* all[0]
    ELSE IF f.kind = "reject" \/ f.kind = "badjson" THEN s
    ELSE handleMessages(s, f.msgs, rnd, ub)

\* ------------------------------------------------------------ environment
UB == {"crash", "continue"}

PlayerLists == { <<"A">>, <<"B", "A">>, <<"Z">> }

\* the payloads the protocol model delivers
ProtocolPayloads == { Payload(FALSE, "play", TRUE, "x", TRUE, 37, 200, 0) }

HandshakeOk(cid) == Message(ChHandshake, TRUE, 0, cid, NoData)
ConnectOk == Message(ChConnect, TRUE, 0, EmptyStr, NoData)
SubscribeOk(id) == Message(ChSubscribe, TRUE, id, EmptyStr, NoData)
Push(ch, id, d) == Message(ch, FALSE, id, EmptyStr, d)

\* what a well-behaved server sends in the current state: the answers to the
\* three requests, and pushes on the response channel it was given, for the
\* ids it was given; two messages may share a frame
WellFormedFrames(P) ==
    LET ids == DOMAIN sqPlayerIdMapping
        acks == { SubscribeOk(id) : id \in ids }
        pushes == { Push(subscriptionChannel, id, d) : id \in ids, d \in P }
    IN { Frame("ok", <<m>>) :
            m \in { HandshakeOk(cid) : cid \in ClientIds } \cup {ConnectOk}
                  \cup acks \cup pushes }
       \cup { Frame("ok", <<m1, m2>>) : m1 \in acks, m2 \in acks \cup pushes }

\* what any peer may send: one message with any of the channels the code
\* compares (or none, or another), either value of successful and any id, an
\* empty message list, a body that is no JSON, a packet that is neither an
\* HTTP 200 response nor two lines, and a read that yields no line at all
ChOther == <<"/meta/disconnect">>
AnyMessages ==
    { Message(ch, su, id, <<Quote, "a", Quote>>, d) :
        ch \in {ChHandshake, ChConnect, ChSubscribe, subscriptionChannel,
                EmptyStr, ChOther},
        su \in BOOLEAN, id \in FrameIds, d \in ProtocolPayloads }
AnyFrames ==
    { Frame("ok", <<m>>) : m \in AnyMessages }
    \cup { Frame("ok", << >>), Frame("badjson", << >>), Frame("reject", << >>),
           Frame("blank", << >>) }

RandChoices == [MyEntities -> RandIds]

\* whether a frame can reach the subscribe loop, the only user of qrand()
DrawsRandom(f) ==
    \E i \in 1..Len(f.msgs) : f.msgs[i].channel = ChConnect /\ f.msgs[i].successful

\* whether handling a frame or a payload can make an undefined access
FrameMayFault(f) ==
    \/ f.kind = "blank"
    \/ \E i \in 1..Len(f.msgs) : ~f.msgs[i].data.hasItem

WithinBounds(s) ==
    /\ s.pendingCommands <= MaxPendingCommands
    /\ s.pendingPlayers <= MaxPendingPlayers
    /\ \A k \in DOMAIN s.pendingStatus : s.pendingStatus[k] <= MaxPendingStatus

\* ------------------------------------------------------------------- Init
\* the state after the constructor (lines 48-94); _userDisconnect and
\* _inStandby are not initialised by it
Init ==
    /\ connectionState = idle
    /\ userDisconnect \in BOOLEAN
    /\ inStandby \in BOOLEAN
    /\ connectionTries = 0
    /\ connectionTimeoutActive = FALSE
    /\ mediaProgressActive = FALSE
    /\ clientId = EmptyStr
    /\ subscriptionChannel = EmptyStr
    /\ sqPlayerDatabase = [k \in MyEntities |-> SqPlayer]
    /\ sqPlayerIdMapping = EmptyMap
    /\ entities = [k \in MyEntities |-> EntityDefault]
    /\ integrationState = "NONE"
    /\ socketState = "unconnected"
    /\ pendingPlayers = 0
    /\ pendingStatus = [k \in MyEntities |-> 0]
    /\ pendingCommands = 0
    /\ crashed = FALSE
    /\ stateTrace = << >>
    /\ basePosition = [k \in MyEntities |-> 0]
    /\ ticksSince = [k \in MyEntities |-> 0]

\* ---------------------------------------------------------------- actions
Step(s) == WithinBounds(s) /\ Install(s)

Connect ==
    /\ ~crashed
    /\ Step(connect(Cur))

Disconnect ==
    /\ ~crashed
    /\ Step(disconnect(Cur))

EnterStandby ==
    /\ ~crashed
    /\ Step(enterStandby(Cur))

LeaveStandby ==
    /\ ~crashed
    /\ Step(leaveStandby(Cur))

ConnectionTimeout ==
    /\ ~crashed
    /\ connectionTimeoutActive
    /\ Step(onConnectionTimeoutTimer(Cur))

MediaProgressTick ==
    /\ ~crashed
    /\ mediaProgressActive
    /\ \A k \in DOMAIN sqPlayerDatabase :
          sqPlayerDatabase[k].isPlaying /\ k \in DOMAIN ticksSince
              => ticksSince[k] < MaxTicks
    /\ Step(onMediaProgressTimer(Cur))

PlayersReplyOf(L) ==
    /\ ~crashed
    /\ pendingPlayers > 0
    /\ \E players \in L, ok \in BOOLEAN :
          Step(playersReply(Cur, players, ok))

StatusReplyOf(P) ==
    \E mac \in MyEntities :
      /\ ~crashed
      /\ pendingStatus[mac] > 0
      /\ \E d \in P, ok \in BOOLEAN :
           \E ub \in IF d.hasItem THEN {"continue"} ELSE UB :
              Step(statusReply(Cur, mac, d, ok, ub))

SocketConnected ==
    /\ ~crashed
    /\ socketState = "connecting"
    /\ Step(socketConnected([Cur EXCEPT !.socket = "connected"]))

SocketError ==
    /\ ~crashed
    /\ socketState # "unconnected"
    /\ Step(socketError([Cur EXCEPT !.socket = "unconnected"]))

SocketReceivedOf(F, R) ==
    /\ ~crashed
    /\ socketState = "connected"
    /\ \E f \in F :
         \E ub \in IF FrameMayFault(f) THEN UB ELSE {"continue"} :
           \E rnd \in IF DrawsRandom(f) THEN R ELSE {[k \in MyEntities |-> 1]} :
              Step(socketReceived(Cur, f, rnd, ub))

SendCommand ==
    /\ ~crashed
    /\ \E type \in ItemTypes, entityId \in ServerPlayers,
          command \in Commands, param \in Params :
          Step(sendCommand(Cur, type, entityId, command, param))

CommandReply ==
    /\ ~crashed
    /\ pendingCommands > 0
    /\ \E ok \in BOOLEAN : Step(commandReply(Cur, ok))

\* an HTTP error on an outstanding RPC: QNetworkReply signals the error and
\* then finished, whose callback finds no JSON in the empty body
NetworkError ==
    /\ ~crashed
    /\ \/ /\ pendingPlayers > 0
          /\ Step(playersReply(networkError(Cur), << >>, FALSE))
       \/ \E mac \in MyEntities :
             /\ pendingStatus[mac] > 0
             /\ Step(statusReply(networkError(Cur), mac, NoData, FALSE, "continue"))
       \/ /\ pendingCommands > 0
          /\ Step(commandReply(networkError(Cur), FALSE))

\* ------------------------------------------------- the protocol behaviours
PlayersReply == PlayersReplyOf(PlayerLists)
StatusReply == StatusReplyOf(ProtocolPayloads)
SocketReceived == SocketReceivedOf(WellFormedFrames(ProtocolPayloads), RandChoices)

Next ==
    \/ Connect
    \/ Disconnect
    \/ ConnectionTimeout
    \/ PlayersReply
    \/ StatusReply
    \/ SocketConnected
    \/ SocketError
    \/ NetworkError
    \/ SocketReceived

Spec == Init /\ [][Next]_vars

\* ------------------------------------------------- the playback behaviours
\* the session while the streaming socket is not up: statuses arrive as
\* answers to status RPCs, the progress timer ticks, the host enters and
\* leaves standby, connects and disconnects
PlaybackLists == { <<"A">>, <<"A", "B">> }
PlaybackPlayersReply == PlayersReplyOf(PlaybackLists)
PlaybackStatusReply == StatusReplyOf(Payloads)

NextPlayback ==
    \/ Connect
    \/ Disconnect
    \/ EnterStandby
    \/ LeaveStandby
    \/ MediaProgressTick
    \/ PlaybackPlayersReply
    \/ PlaybackStatusReply
    \/ SocketError

SpecPlayback == Init /\ [][NextPlayback]_vars

\* --------------------------------------------------- the status behaviours
\* parsePlayerStatus applied to player "A" with every payload of
\* StatusPayloads, from every state that statuses, ticks and standby produce
ApplyStatus ==
    /\ ~crashed
    /\ \E d \in StatusPayloads :
         \E ub \in IF d.hasItem THEN {"continue"} ELSE UB :
            Step(parsePlayerStatus(Cur, "A", d, ub))

NextStatus ==
    \/ ApplyStatus
    \/ MediaProgressTick
    \/ EnterStandby

SpecStatus == Init /\ [][NextStatus]_vars

\* ------------------------------------------------------ the frame behaviours
\* the session in front of a peer that may send anything
AnyFrameReceived == SocketReceivedOf(AnyFrames, RandChoices)

NextFrames ==
    \/ Connect
    \/ Disconnect
    \/ PlayersReply
    \/ StatusReply
    \/ SocketConnected
    \/ AnyFrameReceived

SpecFrames == Init /\ [][NextFrames]_vars

\* ------------------------------------------------------ the cycle behaviours
\* connect cycles against a server that lists a known player and answers
\* every request with the well-formed successful response, every answer
\* delivered before the connection timeout fires; no transport error; the
\* host connects when no cycle is under way and disconnects a session that
\* is Connected; the subscription ids drawn in one cycle are distinct
DistinctChoices == { r \in RandChoices : \A j, k \in MyEntities : r[j] = r[k] => j = k }

ListAnswer ==
    /\ ~crashed
    /\ pendingPlayers > 0
    /\ \E players \in PlaybackLists : Step(playersReply(Cur, players, TRUE))

StatusAnswer ==
    \E mac \in MyEntities :
      /\ ~crashed
      /\ pendingStatus[mac] > 0
      /\ \E d \in ProtocolPayloads : Step(statusReply(Cur, mac, d, TRUE, "continue"))

AnswerOf(m) ==
    /\ ~crashed
    /\ socketState = "connected"
    /\ \E rnd \in DistinctChoices :
          Step(socketReceived(Cur, Frame("ok", <<m>>), rnd, "continue"))

HandshakeAnswer ==
    /\ connectionState = cometdHandshake
    /\ AnswerOf(HandshakeOk(<<Quote, "a", Quote>>))

ConnectAnswer ==
    /\ connectionState = cometdConnect
    /\ AnswerOf(ConnectOk)

\* the subscribe requests not yet answered: the ids of the mapping whose
\* player is not subscribed yet
SubscribeAnswer ==
    /\ connectionState = cometdSubscribe
    /\ \E id \in DOMAIN sqPlayerIdMapping :
          /\ ~sqPlayerDatabase[sqPlayerIdMapping[id]].subscribed
          /\ AnswerOf(SubscribeOk(id))

AnswerOutstanding ==
    \/ pendingPlayers > 0
    \/ \E mac \in MyEntities : pendingStatus[mac] > 0
    \/ socketState = "connecting"
    \/ /\ socketState = "connected"
       /\ \/ connectionState \in {cometdHandshake, cometdConnect}
          \/ /\ connectionState = cometdSubscribe
             /\ \E id \in DOMAIN sqPlayerIdMapping :
                   ~sqPlayerDatabase[sqPlayerIdMapping[id]].subscribed

QuietTimeout ==
    /\ ~AnswerOutstanding
    /\ ConnectionTimeout

CycleConnect ==
    /\ connectionState = idle \/ userDisconnect
    /\ ~AnswerOutstanding
    /\ Connect

CycleDisconnect ==
    /\ connectionState = connected
    /\ ~userDisconnect
    /\ Disconnect

NextCycle ==
    \/ CycleConnect
    \/ CycleDisconnect
    \/ ListAnswer
    \/ StatusAnswer
    \/ SocketConnected
    \/ HandshakeAnswer
    \/ ConnectAnswer
    \/ SubscribeAnswer
    \/ QuietTimeout

SpecCycle ==
    /\ Init
    /\ [][NextCycle]_vars
    /\ WF_vars(ListAnswer) /\ WF_vars(StatusAnswer) /\ WF_vars(SocketConnected)
    /\ WF_vars(HandshakeAnswer) /\ WF_vars(ConnectAnswer)
    /\ WF_vars(SubscribeAnswer) /\ WF_vars(QuietTimeout)

\* ----------------------------------------------------- the silent behaviours
\* connect attempts against a server that answers the RPCs and accepts the
\* socket but never sends a frame; the host connects only when no attempt is
\* under way, and nothing else is put in
SilentConnect ==
    /\ ~connectionTimeoutActive
    /\ pendingPlayers = 0
    /\ Connect

NextSilent ==
    \/ SilentConnect
    \/ ListAnswer
    \/ StatusAnswer
    \/ SocketConnected
    \/ ConnectionTimeout

SpecSilent ==
    /\ Init
    /\ [][NextSilent]_vars
    /\ WF_vars(ListAnswer) /\ WF_vars(StatusAnswer) /\ WF_vars(SocketConnected)
    /\ WF_vars(ConnectionTimeout)

\* ---------------------------------------------------- the command behaviours
\* commands are dispatched while the session connects, disconnects and
\* receives the answers to its RPCs
NextCommand ==
    \/ SendCommand
    \/ CommandReply
    \/ NetworkError
    \/ Connect
    \/ Disconnect
    \/ PlayersReply
    \/ StatusReply
    \/ SocketConnected

SpecCommand == Init /\ [][NextCommand]_vars

\* -------------------------------------------------------- the push behaviours
\* the session in front of a server that pushes statuses: no status RPC is
\* answered (an outstanding one ends with an HTTP error), so that every
\* status applied has come in a frame; the pushes carry any id
PushPayloads ==
    { Payload(TRUE, "play", TRUE, "x", TRUE, 37, 200, 0),
      Payload(FALSE, "play", TRUE, "x", TRUE, 37, 200, 0) }

PushFrames ==
    WellFormedFrames(PushPayloads)
    \cup { Frame("ok", <<Push(subscriptionChannel, id, d)>>) :
              id \in FrameIds, d \in PushPayloads }

PushReceived == SocketReceivedOf(PushFrames, RandChoices)

NextPush ==
    \/ Connect
    \/ Disconnect
    \/ PlayersReply
    \/ NetworkError
    \/ SocketConnected
    \/ PushReceived

SpecPush == Init /\ [][NextPush]_vars

\* ================================================================ claims
Chain == <<playerInfo, cometdHandshake, cometdConnect, cometdSubscribe, connected>>

\* C1: during a connect attempt that no disconnect and no socket error has
\* disturbed, the states assigned since connect() are a prefix of
\* RequestingPlayers, Handshaking, Connecting, Subscribing, Connected, and the
\* current state is the last of them: none is skipped or out of order, and
\* Connected follows Subscribing.
C1_VisitsInOrder ==
    stateTrace # << >> =>
        /\ Len(stateTrace) <= Len(Chain)
        /\ stateTrace = SubSeq(Chain, 1, Len(stateTrace))
        /\ connectionState = stateTrace[Len(stateTrace)]

C1_Witness == stateTrace = Chain /\ connectionState = connected

EveryConnectedSubscribed(db) ==
    \A k \in DOMAIN db : db[k].connected => db[k].subscribed

\* the step in which one successful /slim/subscribe acknowledgment is handled
AckStep(id) ==
    /\ ~crashed
    /\ socketState = "connected"
    /\ Install(socketReceived(Cur, Frame("ok", <<SubscribeOk(id)>>),
                              [k \in MyEntities |-> 1], "continue"))

\* C2: the state becomes Connected only in a step after which every connected
\* player is subscribed, and handling an acknowledgment while Subscribing
\* makes it Connected exactly when, with that acknowledgment applied, every
\* connected player is subscribed.
C2_ConnectedIffAllSubscribed ==
    [][ /\ (connectionState # connected /\ connectionState' = connected)
            => EveryConnectedSubscribed(sqPlayerDatabase')
        /\ \A id \in FrameIds :
             (connectionState = cometdSubscribe /\ AckStep(id))
                => (connectionState' = connected
                      <=> EveryConnectedSubscribed(sqPlayerDatabase'))
      ]_vars

C2_Witness ==
    /\ connectionState = connected
    /\ \A k \in MyEntities :
          sqPlayerDatabase[k].connected /\ sqPlayerDatabase[k].subscribed
    /\ stateTrace = Chain

\* C3: a disconnect made while subscribe requests are outstanding empties the
\* Subscription Mapping, and an acknowledgment handled while the disconnect
\* stands changes neither a subscribed flag nor the connection state.
C3_DisconnectDropsSubscriptions ==
    [][ /\ (Disconnect /\ connectionState = cometdSubscribe)
              => sqPlayerIdMapping' = EmptyMap
        /\ \A id \in FrameIds :
             (userDisconnect /\ AckStep(id))
                => /\ connectionState' = connectionState
                   /\ \A k \in DOMAIN sqPlayerDatabase :
                         sqPlayerDatabase'[k].subscribed
                            = sqPlayerDatabase[k].subscribed
      ]_vars

\* a disconnect request: disconnect() itself, or the timeout that gives up
DisconnectRequest ==
    \/ Disconnect
    \/ (ConnectionTimeout /\ connectionState # connected
          /\ connectionTries = MaxTries)

\* C4: after a disconnect request the state is Idle, the Subscription Mapping
\* is empty, clientId is cleared and every player is neither connected nor
\* subscribed, while the registry keeps its entries.
C4_DisconnectResets ==
    [][ DisconnectRequest =>
          /\ connectionState' = idle
          /\ sqPlayerIdMapping' = EmptyMap
          /\ clientId' = EmptyStr
          /\ DOMAIN sqPlayerDatabase' = DOMAIN sqPlayerDatabase
          /\ \A k \in DOMAIN sqPlayerDatabase' :
                /\ ~sqPlayerDatabase'[k].connected
                /\ ~sqPlayerDatabase'[k].subscribed
      ]_vars

\* C5: disconnect() stops the progress timer and closes the socket, and no
\* step taken while the disconnect stands opens the socket, changes a
\* player's fields, restarts the progress timer or changes the connection
\* state.
C5_LateResponsesDiscarded ==
    [][ /\ Disconnect => (~mediaProgressActive' /\ socketState' = "unconnected")
        /\ (~crashed /\ userDisconnect /\ userDisconnect')
              => /\ socketState' = socketState
                 /\ sqPlayerDatabase' = sqPlayerDatabase
                 /\ (mediaProgressActive' => mediaProgressActive)
                 /\ connectionState' = connectionState
      ]_vars

\* the step in which the answer to a status RPC is applied
StatusStep(mac, d, ub) ==
    /\ ~crashed
    /\ pendingStatus[mac] > 0
    /\ Install(statusReply(Cur, mac, d, TRUE, ub))

\* C6: while the process lives, the position of a playing player is the time
\* of the last status applied to it plus half a second for every tick since,
\* and the position of a player that is not playing is that time; the step
\* that applies a status sets the position to the payload's time.
C6_Extrapolation ==
    /\ [](~crashed =>
            \A k \in MyEntities :
               sqPlayerDatabase[k].position =
                  basePosition[k]
                  + (IF sqPlayerDatabase[k].isPlaying
                     THEN TickStep * ticksSince[k] ELSE 0))
    /\ [][ \A mac \in MyEntities, d \in Payloads :
             (StatusStep(mac, d, "continue") /\ ~crashed')
                => sqPlayerDatabase'[mac].position = d.time ]_vars

C6_Witness ==
    /\ ~crashed
    /\ \E k \in MyEntities :
          /\ sqPlayerDatabase[k].isPlaying
          /\ ticksSince[k] >= 2
          /\ sqPlayerDatabase[k].position = basePosition[k] + 2 * TickStep

\* C7 as stated: the progress timer is active only if the session is not in
\* standby and some player is playing.
C7_TimerOnlyWhilePlaying ==
    mediaProgressActive => (~inStandby /\ OnePlaying(sqPlayerDatabase))

\* C7, amended: the progress timer is active only if the session is not in
\* standby; when it becomes active, and after every tick that leaves it
\* active, some player is playing; a tick that finds no playing player stops
\* the timer and changes no position.
C7_TimerStopsOnTick ==
    /\ [](mediaProgressActive => ~inStandby)
    /\ [][ /\ (~mediaProgressActive /\ mediaProgressActive')
               => OnePlaying(sqPlayerDatabase')
           /\ MediaProgressTick =>
                /\ mediaProgressActive' <=> OnePlaying(sqPlayerDatabase)
                /\ mediaProgressActive' => OnePlaying(sqPlayerDatabase')
                /\ ~OnePlaying(sqPlayerDatabase)
                      => sqPlayerDatabase' = sqPlayerDatabase
         ]_vars

C7_Witness ==
    /\ ~crashed
    /\ mediaProgressActive
    /\ ~OnePlaying(sqPlayerDatabase)

\* C8: entering standby stops the progress timer and in standby it stays
\* stopped; leaving standby sends one status RPC for every playing player and
\* none for any other; the timer, and with it the extrapolation, starts again
\* only in a step that applies a status of a powered player in mode "play".
C8_Standby ==
    /\ [](inStandby => ~mediaProgressActive)
    /\ [][ /\ EnterStandby => ~mediaProgressActive'
           /\ LeaveStandby =>
                \A k \in MyEntities :
                   pendingStatus'[k] =
                      pendingStatus[k]
                      + (IF sqPlayerDatabase[k].isPlaying THEN 1 ELSE 0)
           /\ (~mediaProgressActive /\ mediaProgressActive')
                => \E mac \in MyEntities, d \in Payloads, ub \in UB :
                      /\ d.power /\ d.mode = "play"
                      /\ StatusStep(mac, d, ub)
         ]_vars

C8_Witness ==
    /\ ~crashed /\ ~inStandby /\ ~mediaProgressActive
    /\ sqPlayerDatabase["A"].isPlaying /\ pendingStatus["A"] = 1
    /\ ~sqPlayerDatabase["B"].isPlaying /\ pendingStatus["B"] = 0
    /\ sqPlayerDatabase["B"].connected
    /\ ticksSince["A"] >= 1

\* what a status leaves behind: the registry, the entity projection and the
\* activity of the progress timer
StatusView(s) == <<s.db, s.ent, s.progress>>

\* C9: in every state, for every player and every payload whose application
\* the process survives, applying the payload a second time changes neither
\* a player record, nor an entity projection, nor the progress timer.
C9_StatusIdempotent ==
    \A mac \in MyEntities, d \in StatusPayloads :
     \A ub \in IF d.hasItem THEN {"continue"} ELSE UB :
       LET once == parsePlayerStatus(Cur, mac, d, ub)
           twice == parsePlayerStatus(once, mac, d, ub)
       IN ~once.crashed =>
             /\ ~twice.crashed
             /\ StatusView(twice) = StatusView(once)

C9_Witness ==
    /\ ~crashed
    /\ sqPlayerDatabase["A"].isPlaying
    /\ sqPlayerDatabase["A"].position = 12 + TickStep
    /\ entities["A"].artist = "y"
    /\ mediaProgressActive

\* C10: in every state, for every player and every payload whose application
\* the process survives, a negative mixer_volume leaves muted = true and the
\* volume attribute as it was, and a mixer_volume v >= 0 leaves muted = false
\* and volume = v.
C10_VolumeConvention ==
    \A mac \in MyEntities, d \in StatusPayloads :
     \A ub \in IF d.hasItem THEN {"continue"} ELSE UB :
       LET after == parsePlayerStatus(Cur, mac, d, ub)
       IN ~after.crashed =>
             IF d.mixer_volume < 0
             THEN /\ after.ent[mac].muted = TRUE
                  /\ after.ent[mac].volume = entities[mac].volume
             ELSE /\ after.ent[mac].muted = FALSE
                  /\ after.ent[mac].volume = d.mixer_volume

C10_Witness ==
    /\ ~crashed
    /\ entities["A"].muted
    /\ entities["A"].volume = 37

\* what C11 says stays as it was
DispatchFrame ==
    /\ sqPlayerDatabase' = sqPlayerDatabase
    /\ sqPlayerIdMapping' = sqPlayerIdMapping
    /\ connectionState' = connectionState

\* C11 as stated: sendCommand with type "media_player" issues exactly one
\* RPC, whatever the command.
C11_OneRpcPerCommand ==
    \A entityId \in ServerPlayers, command \in Commands, param \in Params :
       Len(sendCommand(Cur, "media_player", entityId, command, param).out) = 1

\* C11, amended: sendCommand with type "media_player" and one of the eleven
\* handled commands issues exactly one RPC, addressed to the entity, whose
\* command string does not depend on the param unless the command is
\* C_VOLUME_SET, and C_VOLUME_SET with param "20" (or 20) gives
\* "mixer volume 20"; with another command or another type it issues nothing;
\* dispatching, and the arrival of the RPC's answer, change no player record,
\* no subscription mapping entry and not the connection state.
C11_Dispatch ==
    /\ [](\A type \in ItemTypes, entityId \in ServerPlayers,
             command \in Commands, param \in Params :
            LET o == sendCommand(Cur, type, entityId, command, param).out
            IN IF type = "media_player" /\ command \in HandledCommands
               THEN /\ Len(o) = 1
                    /\ o[1].kind = "rpc" /\ o[1].player = entityId
                    /\ command # "C_VOLUME_SET" =>
                          \A other \in Params :
                             sendCommand(Cur, type, entityId, command, other).out = o
                    /\ (command = "C_VOLUME_SET"
                          /\ param \in {StrParam(<<"2", "0">>), IntParam(20)}) =>
                          o[1].command = <<"mixer", " ", "volume", " ", "2", "0">>
               ELSE o = << >>)
    /\ [][ (SendCommand \/ CommandReply) => DispatchFrame ]_vars

C11_Witness ==
    /\ ~crashed
    /\ pendingCommands = 1
    /\ pendingPlayers = 0
    /\ sqPlayerDatabase["A"].connected
    /\ socketState = "connected"

\* C12: in every reachable state, every entry of the player registry that is
\* subscribed is connected.
C12_SubscribedImpliesConnected ==
    \A k \in DOMAIN sqPlayerDatabase :
       sqPlayerDatabase[k].subscribed => sqPlayerDatabase[k].connected

\* C13: the connection-attempt counter never exceeds 3; the timeout that
\* fires while the session is not Connected with the counter at 3 disconnects
\* (flag set, socket closed, progress timer stopped, integration
\* DISCONNECTED), adds exactly one notification, with the reconnect action,
\* requests nothing and resets the counter to 0; with the counter below 3 it
\* increments the counter and starts a connect attempt (integration
\* CONNECTING, timer started, one player-list request, state
\* RequestingPlayers); while Connected it resets the counter to 0 and
\* writes nothing.
C13_BoundedRetries ==
    /\ [](connectionTries <= MaxTries)
    /\ [][ ConnectionTimeout =>
             LET o == onConnectionTimeoutTimer(Cur).out
             IN IF connectionState = connected
                THEN /\ connectionTries' = 0
                     /\ o = << >>
                     /\ connectionState' = connected
                     /\ pendingPlayers' = pendingPlayers
                ELSE IF connectionTries = MaxTries
                THEN /\ connectionTries' = 0
                     /\ o = <<Out("notify", "", <<"Reconnect">>, 0)>>
                     /\ userDisconnect' /\ socketState' = "unconnected"
                     /\ ~mediaProgressActive'
                     /\ integrationState' = "DISCONNECTED"
                     /\ ~connectionTimeoutActive'
                     /\ pendingPlayers' = pendingPlayers
                ELSE /\ connectionTries' = connectionTries + 1
                     /\ o = <<Out("rpc", "-", PlayersCmd, 1)>>
                     /\ pendingPlayers' = pendingPlayers + 1
                     /\ connectionState' = playerInfo
                     /\ integrationState' = "CONNECTING"
                     /\ ~userDisconnect' /\ connectionTimeoutActive'
         ]_vars

C13_Witness ==
    /\ ~crashed
    /\ connectionTries = MaxTries
    /\ connectionTimeoutActive
    /\ connectionState = cometdSubscribe
    /\ integrationState = "CONNECTING"

\* the members of the session other than the state of the socket itself and
\* the counts of outstanding RPCs
SessionMembers ==
    << connectionState, userDisconnect, inStandby, connectionTries,
       connectionTimeoutActive, mediaProgressActive, clientId,
       subscriptionChannel, sqPlayerDatabase, sqPlayerIdMapping, entities,
       integrationState, crashed >>

\* C14: a socket error with the user-disconnect flag clear sets the
\* connection state to Error and changes no player record and no
\* subscription mapping entry; a socket error or an HTTP error with the flag
\* set changes no member of the session, so arms no timer.
C14_ErrorHandling ==
    [][ /\ (SocketError /\ ~userDisconnect) =>
              /\ connectionState' = error
              /\ sqPlayerDatabase' = sqPlayerDatabase
              /\ sqPlayerIdMapping' = sqPlayerIdMapping
        /\ ((SocketError \/ NetworkError) /\ userDisconnect) =>
              UNCHANGED SessionMembers
      ]_vars

C14_Witness ==
    /\ ~crashed
    /\ connectionState = error
    /\ ~userDisconnect
    /\ socketState = "unconnected"
    /\ sqPlayerIdMapping # EmptyMap
    /\ sqPlayerDatabase["A"].subscribed

\* C15: every connect cycle, also one started after an earlier cycle was
\* Connected and then disconnected, eventually reaches Connected.
C15_EveryCycleConnects ==
    (connectionState = playerInfo) ~> (connectionState = connected)

\* C16: the connection state changes to RequestingPlayers only from Idle, a
\* player-list request is issued only in Idle, and the socket is opened only
\* when it is not open already.
C16_RequestOnlyFromIdle ==
    [][ /\ (connectionState' = playerInfo /\ connectionState # playerInfo)
              => connectionState = idle
        /\ pendingPlayers' > pendingPlayers => connectionState = idle
        /\ \A players \in PlayerLists :
              (pendingPlayers > 0 /\ Install(playersReply(Cur, players, TRUE)))
                 => socketState = "unconnected"
      ]_vars

\* the session has given up: disconnected by the timeout, no timer running
GaveUp ==
    /\ userDisconnect
    /\ ~connectionTimeoutActive
    /\ connectionTries = 0
    /\ integrationState = "DISCONNECTED"

\* C17 as stated: once the connection state is Handshaking and no frame
\* arrives, it stays Handshaking forever.
C17_StaysHandshaking ==
    [](connectionState = cometdHandshake => [](connectionState = cometdHandshake))

\* C17, amended: an attempt that is Handshaking and receives no frame is
\* aborted by the connection timeout: the firing in Handshaking either
\* starts a retry (state RequestingPlayers, counter incremented) or, with
\* the counter at 3, gives up; and every such attempt does end with the
\* session having given up.
C17_SelfAborts ==
    /\ [][ (ConnectionTimeout /\ connectionState = cometdHandshake) =>
              \/ /\ connectionState' = playerInfo
                 /\ connectionTries' = connectionTries + 1
              \/ /\ connectionTries = MaxTries
                 /\ GaveUp'
         ]_vars
    /\ (connectionState = cometdHandshake) ~> GaveUp

C17_Witness ==
    /\ ~crashed
    /\ GaveUp
    /\ connectionState = error
    /\ socketState = "unconnected"

\* the session after a successful /meta/connect frame, with rnd the values
\* qrand() returns
AfterConnectOk(rnd) ==
    socketReceived(Cur, Frame("ok", <<ConnectOk>>), rnd, "continue")

\* a frame can be handled: the process lives and the socket is connected
Receiving == ~crashed /\ socketState = "connected"

SubscribesIn(out) == {i \in 1..Len(out) : out[i].command = SubscribeCmd}

\* C18: whatever qrand() returns, the subscribe frames sent in the subscribe
\* step carry pairwise distinct ids, and after the step the Subscription
\* Mapping resolves the id of each frame to the player the frame was sent for.
C18_DistinctSubscriptionIds ==
    (Receiving /\ connectionState = cometdConnect) =>
       \A rnd \in RandChoices :
          LET r == AfterConnectOk(rnd)
              sent == SubscribesIn(r.out)
          IN /\ \A i, j \in sent : r.out[i].id = r.out[j].id => i = j
             /\ \A i \in sent : MapValue(r.map, r.out[i].id) = r.out[i].player

\* the players the subscribe step is for
Eligible ==
    {k \in DOMAIN sqPlayerDatabase :
        sqPlayerDatabase[k].connected /\ ~sqPlayerDatabase[k].subscribed}

\* C19: a successful /meta/connect frame handled in state Connecting sends
\* exactly one /slim/subscribe frame for each player that is connected and
\* not subscribed, carrying the id drawn for it, and sends nothing else;
\* each of these ids is inserted in the Subscription Mapping against a player
\* it was drawn for and no other entry is touched; the same frame handled in
\* any other state sends nothing and leaves the mapping as it is.
C19_SubscribeEligible ==
    Receiving =>
    \A rnd \in RandChoices :
       LET r == AfterConnectOk(rnd)
       IN IF connectionState = cometdConnect
          THEN /\ r.cs = cometdSubscribe
               /\ Len(r.out) = Cardinality(Eligible)
               /\ \A k \in Eligible :
                     \E i \in 1..Len(r.out) :
                        r.out[i] = Out("cometd", k, SubscribeCmd, rnd[k])
               /\ DOMAIN r.map =
                     DOMAIN sqPlayerIdMapping \cup {rnd[k] : k \in Eligible}
               /\ \A id \in DOMAIN r.map :
                     IF \E k \in Eligible : rnd[k] = id
                     THEN r.map[id] \in Eligible /\ rnd[r.map[id]] = id
                     ELSE r.map[id] = sqPlayerIdMapping[id]
          ELSE /\ r.out = << >>
               /\ r.map = sqPlayerIdMapping
               /\ r.cs = connectionState

C19_Witness ==
    /\ ~crashed
    /\ connectionState = cometdSubscribe
    /\ sqPlayerDatabase["A"].connected /\ sqPlayerDatabase["A"].subscribed
    /\ sqPlayerDatabase["B"].connected /\ ~sqPlayerDatabase["B"].subscribed
    /\ \E id \in DOMAIN sqPlayerIdMapping : sqPlayerIdMapping[id] = "B"
    /\ userDisconnect = FALSE

\* a message that the session, in its current state, is waiting for: the
\* successful answer to the request it has sent last, or a push on the
\* subscription channel a handshake has given it
ExpectedMessage(m) ==
    \/ connectionState = cometdHandshake /\ m.successful /\ m.channel = ChHandshake
    \/ connectionState = cometdConnect /\ m.successful /\ m.channel = ChConnect
    \/ connectionState = cometdSubscribe /\ m.successful /\ m.channel = ChSubscribe
    \/ clientId # EmptyStr /\ m.channel = SubscriptionChannelOf(clientId)

\* C20: a frame whose body is no JSON, and a frame of well-formed JSON whose
\* message is none the session is waiting for, leave the connection state,
\* clientId, subscriptionChannel, the Subscription Mapping and every player
\* record as they are, send nothing and leave the process running.
C20_UnexpectedIgnored ==
    Receiving =>
    \A f \in AnyFrames, ub \in UB :
       (\/ f.kind = "badjson"
        \/ f.kind = "ok" /\ \A i \in 1..Len(f.msgs) : ~ExpectedMessage(f.msgs[i]))
       => LET r == socketReceived(Cur, f, [k \in MyEntities |-> 1], ub)
          IN /\ r.cs = connectionState
             /\ r.clientId = clientId
             /\ r.channel = subscriptionChannel
             /\ r.map = sqPlayerIdMapping
             /\ r.db = sqPlayerDatabase
             /\ r.out = << >>
             /\ ~r.crashed

\* the handshake of lines 404-411 has succeeded: a clientId has been stored
\* and the subscription channel derived from it
HandshakeDone ==
    /\ clientId # EmptyStr
    /\ subscriptionChannel = SubscriptionChannelOf(clientId)

\* the session after a frame with one message on the current subscription
\* channel, carrying id and the payload d
AfterPush(su, id, d, ub) ==
    socketReceived(Cur,
                   Frame("ok", <<Message(subscriptionChannel, su, id, EmptyStr, d)>>),
                   [k \in MyEntities |-> 1], ub)

\* the player records and entity projections of every player but p are what
\* they were
OthersUntouched(r, p) ==
    /\ DOMAIN r.db = DOMAIN sqPlayerDatabase
    /\ \A k \in DOMAIN r.db \ {p} : r.db[k] = sqPlayerDatabase[k]
    /\ \A k \in DOMAIN r.ent \ {p} : r.ent[k] = entities[k]

\* C21: the Subscription Mapping holds a player for an id only once a
\* handshake has succeeded; a frame on the subscription channel whose id the
\* mapping holds a player for is applied to that player, whatever the
\* connection state and the frame's successful field: the player's entity
\* state is the payload's and, when the application completes, its position
\* is the payload's time; the connection state, the mapping and every other
\* player's record and entity stay as they were.
C21_PushToMappedPlayer ==
    Receiving =>
      /\ sqPlayerIdMapping # EmptyMap => HandshakeDone
      /\ \A id \in DOMAIN sqPlayerIdMapping, su \in BOOLEAN, d \in Payloads :
          \A ub \in IF d.hasItem THEN {"continue"} ELSE UB :
            LET r == AfterPush(su, id, d, ub)
                p == sqPlayerIdMapping[id]
            IN /\ r.cs = connectionState
               /\ r.map = sqPlayerIdMapping
               /\ p \in DOMAIN r.ent
               /\ r.ent[p].state = PlayerStateOf(d)
               /\ r.db[p].isPlaying
                     = IsPlayingAfter(sqPlayerDatabase[p].isPlaying, d)
               /\ ~r.crashed => r.db[p].position = d.time
               /\ OthersUntouched(r, p)

\* a push has been applied to A while Subscribing, B still waiting for its
\* acknowledgment and untouched
C21_Witness ==
    /\ ~crashed
    /\ connectionState = cometdSubscribe
    /\ HandshakeDone
    /\ \E id \in DOMAIN sqPlayerIdMapping : sqPlayerIdMapping[id] = "A"
    /\ entities["A"].state = "PLAYING"
    /\ sqPlayerDatabase["A"].isPlaying
    /\ sqPlayerDatabase["B"].connected
    /\ entities["B"] = EntityDefault

\* C22: in every reachable state the keys of the player registry are the
\* entities configured at construction: no frame, RPC response, timer tick
\* or lifecycle call adds or removes an entry.
C22_RegistryKeysFixed ==
    DOMAIN sqPlayerDatabase = MyEntities

\* the modes parsePlayerStatus tests for
PlaybackModes == {"play", "pause", "stop"}

\* C23: applying a payload whose power is false, or whose mode is none of
\* "play", "pause", "stop", leaves the player's isPlaying flag and the
\* activity of the progress timer as they were; an application that sets
\* isPlaying has power true and mode "play", one that clears it has power
\* true and mode "pause" or "stop"; and every tick advances every player
\* whose isPlaying flag is set by half a second, whatever state its entity
\* shows, so also after a power-off status.
C23_PowerOffKeepsPlaying ==
    /\ [](\A mac \in MyEntities, d \in StatusPayloads :
           \A ub \in IF d.hasItem THEN {"continue"} ELSE UB :
             LET r == parsePlayerStatus(Cur, mac, d, ub)
                 was == sqPlayerDatabase[mac].isPlaying
                 now == r.db[mac].isPlaying
             IN /\ (~d.power \/ d.mode \notin PlaybackModes) =>
                      /\ now = was
                      /\ r.progress = mediaProgressActive
                /\ (~was /\ now) => (d.power /\ d.mode = "play")
                /\ (was /\ ~now) => (d.power /\ d.mode \in {"pause", "stop"}))
    /\ [][ MediaProgressTick =>
             \A k \in MyEntities :
                sqPlayerDatabase[k].isPlaying =>
                   /\ sqPlayerDatabase'[k].position
                         = sqPlayerDatabase[k].position + TickStep
                   /\ entities'[k].progress = sqPlayerDatabase'[k].position
                   /\ sqPlayerDatabase'[k].isPlaying
                   /\ mediaProgressActive'
         ]_vars

\* a player that was playing has got a power-off status and has been
\* advanced by a tick since
C23_Witness ==
    /\ ~crashed
    /\ entities["A"].state = "OFF"
    /\ sqPlayerDatabase["A"].isPlaying
    /\ mediaProgressActive
    /\ ticksSince["A"] >= 1
    /\ sqPlayerDatabase["A"].position
          = basePosition["A"] + TickStep * ticksSince["A"]
    /\ entities["A"].progress = sqPlayerDatabase["A"].position

====
